---- MODULE Spec2Model ----
(***************************************************************************)
(* Wayback Link Preserver (two-phase version, src/unnamed/part_000).       *)
(*                                                                         *)
(* One action of the model is one task of the browser's event loop (the    *)
(* script's own run, a fetch settling, a timer firing, a JSONP event)      *)
(* together with every promise reaction it triggers: the microtask queue   *)
(* is drained before the next task starts, so nothing interleaves inside.  *)
(*                                                                         *)
(* Time is an integer number of milliseconds since the first page load.    *)
(* Every delay and TTL is a user option; the modelled page sets            *)
(*   concurrency: 2, checkDelay: 2, livenessTimeout: 1, jsonpTimeout: 1,   *)
(*   livenessCacheDays: 2 / 86400000, cacheDays: 3 / 86400000              *)
(* so that one clock of a few milliseconds serves the throttle delay, the  *)
(* request timeouts and the expiry of both caches.                         *)
(***************************************************************************)
EXTENDS Integers, Sequences, FiniteSets, TLC

VARIABLES
    now,          \* Date.now() / the timer clock
    userMaxLinks, \* userConfig.maxLinksPerPage (leaving it unset behaves as 0 does)
    anchors,      \* the page: the href (a URL id) of each collected <a>, in DOM order
    store,        \* localStorage: storage key -> stored entry
    writable,     \* whether localStorage.setItem succeeds during this page load
    controller,   \* whether this browser defines AbortController
    run,          \* how many times init() has run (page loads)
    phase,        \* "idle" | "p1" | "p2" | "done" of the current run
    urls,         \* init: urls (the retained URLs)
    queue,        \* checkAllLiveness: queue (URLs no worker has pulled yet)
    inflight,     \* url -> when its pending liveness fetch times out (-1: no fetch)
    jsonp,        \* url -> when its pending JSONP request times out (-1: no request)
    results,      \* checkAllLiveness: results (url -> "none" | "alive" | "dead")
    aq,           \* createQueue: the closure's state (items, running, ...)
    archive,      \* url -> the ArchiveResult delivered for it in this run
    marked,       \* anchor -> "none" | "indicator" | "badge" (markBroken's DOM effect)
    hist,         \* per-run observations: requests issued, cache reads, deliveries
    prev,         \* the previous run's outcome, kept at a page reload
    req,          \* jsonp: the closure of each call (done, callback, script, timer, promise)
    dom           \* the links of the page and what was inserted after them, as siblings

vars == <<now, userMaxLinks, anchors, store, writable, controller, run, phase, urls,
          queue, inflight, jsonp, results, aq, archive, marked, hist, prev, req,
          dom>>

-----------------------------------------------------------------------------
(* Bounds of the model *)

MaxNow == 3       \* the clock stops here
MaxAnchors == 3   \* links on the page
MaxCap == 2       \* largest user value of maxLinksPerPage
MaxRuns == 2      \* page loads
MaxTasks == 3     \* tasks handed to a throttle driven on its own

-----------------------------------------------------------------------------
(* Configuration *)

\* userConfig.x || dflt: a falsy user value (unset, 0) gives the default
OrDefault(user, dflt) == IF user = 0 THEN dflt ELSE user

DefaultMaxLinks == 30
maxLinksPerPage == OrDefault(userMaxLinks, DefaultMaxLinks)

\* the other options as the modelled page sets them (times in milliseconds)
concurrency == 2
checkDelay == 2
livenessTimeout == 1
jsonpTimeout == 1
LIVE_TTL == 2
ARCH_TTL == 3

CACHE_LIVE == "wlp-l:"
\* one prefix for both caches
CachePrefixShared == "wlp-l:"

CACHE_ARCH == "wlp-a:"

-----------------------------------------------------------------------------
(* URLs and hash() *)

\* "http://x/Aa", "http://x/BB", "http://x/C" as UTF-16 code units
UrlChars == <<
    <<104, 116, 116, 112, 58, 47, 47, 120, 47, 65, 97>>,
    <<104, 116, 116, 112, 58, 47, 47, 120, 47, 66, 66>>,
    <<104, 116, 116, 112, 58, 47, 47, 120, 47, 67>> >>

UrlIds == 1..Len(UrlChars)

Half == 65536

\* h = (h << 5) - h + c; h |= 0 on a 32-bit word kept as two 16-bit halves
HashStep(h, c) ==
    LET lo == h.lo * 31 + c
    IN  [hi |-> (h.hi * 31 + lo \div Half) % Half, lo |-> lo % Half]

RECURSIVE HashFrom(_, _, _)
HashFrom(h, str, i) ==
    IF i > Len(str) THEN h ELSE HashFrom(HashStep(h, str[i]), str, i + 1)

\* Math.abs of the signed 32-bit word (toString(36) is one-to-one on it)
Abs32(h) ==
    IF h.hi < Half \div 2 THEN h
    ELSE [hi |-> (Half - 1 - h.hi + (IF h.lo = 0 THEN 1 ELSE 0)) % Half,
          lo |-> (Half - h.lo) % Half]

hash(u) == Abs32(HashFrom([hi |-> 0, lo |-> 0], UrlChars[u], 1))

-----------------------------------------------------------------------------
(* localStorage cache *)

\* hash(url) of every URL of the model, computed once
Hashes == [u \in UrlIds |-> hash(u)]

StoreKey(prefix, u) == <<prefix, Hashes[u]>>
StoreKeys == {StoreKey(p, u) : p \in {CACHE_LIVE, CACHE_ARCH}, u \in UrlIds}

NoUrl == [scheme |-> "undef", rest |-> "undef"]
NoEntry == [kind |-> "none", t |-> 0, alive |-> FALSE, u |-> NoUrl, ts |-> "undef"]

\* the liveness payload with a failed probe stored as alive
LiveDataAlive(alive) == [kind |-> "live", t |-> 0, alive |-> TRUE, u |-> NoUrl, ts |-> "undef"]

LiveData(alive) == [kind |-> "live", t |-> 0, alive |-> alive, u |-> NoUrl, ts |-> "undef"]
ArchData(u, ts) == [kind |-> "arch", t |-> 0, alive |-> FALSE, u |-> u, ts |-> ts]

\* values this script did not write: a string JSON.parse rejects; the text
\* "{}", an object without t; a key whose getItem and setItem throw (storage
\* unavailable)
Garbage == [kind |-> "garbage", t |-> 0, alive |-> FALSE, u |-> NoUrl, ts |-> "undef"]
Empty == [kind |-> "empty", t |-> 0, alive |-> FALSE, u |-> NoUrl, ts |-> "undef"]
Throws == [kind |-> "throws", t |-> 0, alive |-> FALSE, u |-> NoUrl, ts |-> "undef"]

\* the keys a cacheGet has removed
Evicted(before, after) == {k \in DOMAIN before : before[k] # after[k]}

\* cacheGet handing on whatever was read instead of catching the exception
cacheGetNoCatch(st, prefix, ttl, u, t) ==
    LET raw == st[StoreKey(prefix, u)]
    IN  IF raw = NoEntry THEN [entry |-> NoEntry, store |-> st]
        ELSE IF raw.kind \in {"garbage", "throws", "empty"}
             THEN [entry |-> raw, store |-> st]
        ELSE IF t - raw.t > ttl
             THEN [entry |-> NoEntry,
                   store |-> [st EXCEPT ![StoreKey(prefix, u)] = NoEntry]]
             ELSE [entry |-> raw, store |-> st]

\* cacheGet returning null for an expired entry without removing it
cacheGetKeepsExpired(st, prefix, ttl, u, t) ==
    LET raw == st[StoreKey(prefix, u)]
    IN  IF raw = NoEntry \/ raw.kind \in {"garbage", "throws"}
        THEN [entry |-> NoEntry, store |-> st]
        ELSE IF raw.kind = "empty" THEN [entry |-> raw, store |-> st]
        ELSE IF t - raw.t > ttl
             THEN [entry |-> NoEntry, store |-> st]
             ELSE [entry |-> raw, store |-> st]

\* cacheGet returning null for an entry whose alive is not true
cacheGetAliveOnly(st, prefix, ttl, u, t) ==
    LET raw == st[StoreKey(prefix, u)]
    IN  IF raw.kind # "live" \/ ~raw.alive
        THEN [entry |-> NoEntry, store |-> st]
        ELSE IF t - raw.t > ttl
             THEN [entry |-> NoEntry,
                   store |-> [st EXCEPT ![StoreKey(prefix, u)] = NoEntry]]
             ELSE [entry |-> raw, store |-> st]

\* cacheGet: the entry returned (NoEntry for null) and the store it leaves;
\* an exception of getItem or JSON.parse is caught and gives null, and for
\* an object without t, Date.now() - undefined > ttl is false
cacheGet(st, prefix, ttl, u, t) ==
    LET raw == st[StoreKey(prefix, u)]
    IN  IF raw = NoEntry \/ raw.kind \in {"garbage", "throws"}
        THEN [entry |-> NoEntry, store |-> st]
        ELSE IF raw.kind = "empty" THEN [entry |-> raw, store |-> st]
        ELSE IF t - raw.t > ttl
             THEN [entry |-> NoEntry,
                   store |-> [st EXCEPT ![StoreKey(prefix, u)] = NoEntry]]
             ELSE [entry |-> raw, store |-> st]

\* cacheSet that loses the key's old value when setItem fails
cacheSetClearsOnFailure(st, prefix, u, data, t, ok) ==
    IF ok /\ st[StoreKey(prefix, u)] # Throws
    THEN [st EXCEPT ![StoreKey(prefix, u)] = [data EXCEPT !.t = t]]
    ELSE [st EXCEPT ![StoreKey(prefix, u)] = NoEntry]

\* cacheSet; ok = FALSE: setItem throws (store full or unavailable)
cacheSet(st, prefix, u, data, t, ok) ==
    IF ok /\ st[StoreKey(prefix, u)] # Throws
    THEN [st EXCEPT ![StoreKey(prefix, u)] = [data EXCEPT !.t = t]]
    ELSE st

-----------------------------------------------------------------------------
(* createQueue: the throttle *)

NoQueue ==
    [exists |-> FALSE, items |-> <<>>, running |-> FALSE, active |-> {},
     timerAt |-> -1, futures |-> <<>>, started |-> <<>>, failed |-> {},
     lastDone |-> -1, lastGap |-> -1, uncaught |-> 0]

\* createQueue(delay) for tasks with the ids 1..n
createQueue(n) ==
    [NoQueue EXCEPT !.exists = TRUE, !.futures = [i \in 1..n |-> "none"]]

\* next() taking the item added last
QNextLast(q, t) ==
    IF q.items = <<>> THEN [q EXCEPT !.running = FALSE]
    ELSE LET item == q.items[Len(q.items)]
             q1 == [q EXCEPT !.running = TRUE,
                             !.items = SubSeq(q.items, 1, Len(q.items) - 1),
                             !.started = Append(@, item.id),
                             !.lastGap = IF q.lastDone < 0 THEN -1 ELSE t - q.lastDone]
         IN  IF item.kind = "throw"
             THEN [q1 EXCEPT !.failed = @ \cup {item.id}]
             ELSE [q1 EXCEPT !.active = @ \cup {item}]

\* next()
QNext(q, t) ==
    IF q.items = <<>> THEN [q EXCEPT !.running = FALSE]
    ELSE LET item == Head(q.items)
             q1 == [q EXCEPT !.running = TRUE, !.items = Tail(q.items),
                             !.started = Append(@, item.id),
                             !.lastGap = IF q.lastDone < 0 THEN -1 ELSE t - q.lastDone]
         IN  IF item.kind = "throw"
             THEN [q1 EXCEPT !.failed = @ \cup {item.id}]   \* item.fn() throws
             ELSE [q1 EXCEPT !.active = @ \cup {item}]

\* whether next() would throw: the next item's fn throws when called
NextThrows(q) == q.items # <<>> /\ Head(q.items).kind = "throw"

\* add(fn) with the running test dropped
QAddAlways(q, task, t) ==
    LET q1 == [q EXCEPT !.items = Append(@, task), !.futures[task.id] = "pending"]
    IN  QNext(q1, t)

\* add(fn): the executor pushes the item and calls next() unless running;
\* an exception of next() inside the executor rejects the promise
QAdd(q, task, t) ==
    LET q1 == [q EXCEPT !.items = Append(@, task), !.futures[task.id] = "pending"]
    IN  IF q1.running THEN q1
        ELSE IF NextThrows(q1)
             THEN [QNext(q1, t) EXCEPT !.futures[task.id] = "rejected"]
             ELSE QNext(q1, t)

\* the task's promise settles: item.resolve(value) or item.resolve(null), then
\* the last reaction arms the delay timer or clears running
QSettle(q, task, fulfilled, t) ==
    LET q1 == [q EXCEPT !.active = @ \ {task},
                        !.futures[task.id] = IF fulfilled THEN "value" ELSE "null",
                        !.failed = IF fulfilled THEN @ ELSE @ \cup {task.id},
                        !.lastDone = t]
    IN  IF Len(q1.items) > 0
        THEN [q1 EXCEPT !.timerAt = t + checkDelay]
        ELSE [q1 EXCEPT !.running = FALSE]

\* setTimeout(next, delay) fires; an exception of next() here is uncaught
QTimer(q, t) ==
    LET q1 == [q EXCEPT !.timerAt = -1]
    IN  IF NextThrows(q1)
        THEN [QNext(q1, t) EXCEPT !.uncaught = @ + 1]
        ELSE QNext(q1, t)

-----------------------------------------------------------------------------
(* The run's mutable state as one record, so that a task and the promise   *)
(* reactions it triggers compose as operators.                             *)

Cur ==
    [store |-> store, phase |-> phase, queue |-> queue, inflight |-> inflight,
     jsonp |-> jsonp, results |-> results, aq |-> aq, archive |-> archive, marked |-> marked,
     hist |-> hist]

Becomes(m) ==
    \E v \in {m} :
        /\ store' = v.store
        /\ phase' = v.phase
        /\ queue' = v.queue
        /\ inflight' = v.inflight
        /\ jsonp' = v.jsonp
        /\ results' = v.results
        /\ aq' = v.aq
        /\ archive' = v.archive
        /\ marked' = v.marked
        /\ hist' = v.hist

NoResult == [tag |-> "none", archiveUrl |-> NoUrl, timestamp |-> "undef"]
NotArchived == [tag |-> "NotArchived", archiveUrl |-> NoUrl, timestamp |-> "undef"]

NoHist ==
    [liveReqs |-> [u \in UrlIds |-> 0], archReads |-> [u \in UrlIds |-> 0],
     archWrites |-> 0, delivered |-> [u \in UrlIds |-> 0],
     workers |-> 0,                       \* worker() calls made by checkAllLiveness
     probes |-> [u \in UrlIds |-> 0],     \* checkLiveness(u) calls
     outcome |-> [u \in UrlIds |-> "none"], \* how fetch(u) settled: "response" | "failure"
     timedOut |-> {},                     \* liveness timer fired, fetch still pending
     evicted |-> {}]                      \* keys removed by cacheGet as expired

Min(a, b) == IF a < b THEN a ELSE b

-----------------------------------------------------------------------------
(* collectLinks *)

\* order: each href once, in the order of its first anchor
RECURSIVE Order(_)
Order(as) ==
    IF as = <<>> THEN <<>>
    ELSE LET front == Order(SubSeq(as, 1, Len(as) - 1))
             href == as[Len(as)]
         IN  IF \E i \in 1..Len(front) : front[i] = href
             THEN front ELSE Append(front, href)

\* byUrl[href]: the anchors with that href
byUrl(as, href) == {i \in 1..Len(as) : as[i] = href}

\* data.order.slice(0, config.maxLinksPerPage)
Retained(as) == SubSeq(Order(as), 1, Min(maxLinksPerPage, Len(Order(as))))

-----------------------------------------------------------------------------
(* Phase 1: checkLiveness and checkAllLiveness *)

\* worker(): `free` workers pull from the queue; a cache hit records the
\* result and lets the worker pull again, a miss starts a fetch and keeps it
RECURSIVE Pull(_, _, _)
Pull(m, free, t) ==
    IF free = 0 \/ m.queue = <<>> THEN m
    ELSE LET u == Head(m.queue)
             g == cacheGet(m.store, CACHE_LIVE, LIVE_TTL, u, t)
             m1 == [m EXCEPT !.queue = Tail(@), !.store = g.store,
                             !.hist.probes[u] = @ + 1,
                             !.hist.evicted = @ \cup Evicted(m.store, g.store)]
         IN  IF g.entry # NoEntry
             THEN Pull([m1 EXCEPT !.results[u] =
                               IF g.entry.alive THEN "alive" ELSE "dead"],
                       free, t)
             ELSE Pull([m1 EXCEPT !.inflight[u] = t + livenessTimeout,
                                  !.hist.liveReqs[u] = @ + 1],
                       free - 1, t)

\* Promise.all(workers) resolved: every worker has found the queue empty
PhaseOneDoneRace(m) == m.queue = <<>>

PhaseOneDone(m) == m.queue = <<>> /\ \A u \in UrlIds : m.inflight[u] < 0

-----------------------------------------------------------------------------
(* Phase 2: checkArchive, markBroken *)

\* markBroken(link, archiveResult) on one link's mark
markBroken(mark, r) ==
    IF mark # "none" THEN mark
    ELSE IF r.tag = "Archived" THEN "indicator" ELSE "badge"

\* the reaction of init to a resolved checkArchive(url)
Deliver(m, as, u, r) ==
    [m EXCEPT !.archive[u] = r,
              !.hist.delivered[u] = @ + 1,
              !.marked = [i \in DOMAIN @ |->
                             IF i \in byUrl(as, u) THEN markBroken(@[i], r) ELSE @[i]]]

\* the result rebuilt from a cache entry, its timestamp left out
FromCacheNoTimestamp(e) ==
    [tag |-> IF e.u # NoUrl THEN "Archived" ELSE "NotArchived",
     archiveUrl |-> e.u, timestamp |-> "undef"]

\* the result rebuilt from a cache entry
FromCache(e) ==
    [tag |-> IF e.u # NoUrl THEN "Archived" ELSE "NotArchived",
     archiveUrl |-> e.u, timestamp |-> e.ts]

JsonpTask(u) == [id |-> u, kind |-> "promise"]

\* jsonp(url) was called for the tasks the throttle has just started: the
\* script is appended and the timeout armed
Started(m, before, t) ==
    [m EXCEPT !.jsonp = [u \in UrlIds |->
        IF JsonpTask(u) \in m.aq.active \ before.active
        THEN t + jsonpTimeout ELSE @[u]]]

\* checkArchive(url, queue) going to the throttle without reading the cache
checkArchiveNoCache(m, as, u, t) ==
    LET m1 == [m EXCEPT !.hist.archReads[u] = @ + 1]
    IN  Started([m1 EXCEPT !.aq = QAdd(@, JsonpTask(u), t)], m1.aq, t)

\* checkArchive(url, queue) up to its first suspension
checkArchive(m, as, u, t) ==
    LET g == cacheGet(m.store, CACHE_ARCH, ARCH_TTL, u, t)
        m1 == [m EXCEPT !.store = g.store, !.hist.archReads[u] = @ + 1,
                        !.hist.evicted = @ \cup Evicted(m.store, g.store)]
    IN  IF g.entry # NoEntry
        THEN Deliver(m1, as, u, FromCache(g.entry))
        ELSE Started([m1 EXCEPT !.aq = QAdd(@, JsonpTask(u), t)], m1.aq, t)

RECURSIVE Lookups(_, _, _, _)
Lookups(m, as, broken, t) ==
    IF broken = <<>> THEN m
    ELSE Lookups(checkArchive(m, as, Head(broken), t), as, Tail(broken), t)

\* the URLs phase 2 looks up: all of them
brokenUrlsAll(us, res) == us

\* brokenUrls: the retained URLs whose liveness result is not true
brokenUrls(us, res) == SelectSeq(us, LAMBDA u : res[u] # "alive")

StartLookups(m, as, us, t) ==
    Lookups([m EXCEPT !.phase = "p2", !.aq = createQueue(Len(UrlChars))],
            as, brokenUrls(us, m.results), t)

\* the reaction to checkAllLiveness without the early return
PhaseTwoAlways(m, as, us, t) == StartLookups(m, as, us, t)

\* the reaction of init to checkAllLiveness(urls)
PhaseTwo(m, as, us, t) ==
    IF brokenUrls(us, m.results) = <<>>
    THEN [m EXCEPT !.phase = "done"]
    ELSE StartLookups(m, as, us, t)

\* after a worker step: phase 2 starts once, when phase 1 is complete
AfterPull(m, as, us, t) ==
    IF m.phase = "p1" /\ PhaseOneDone(m) THEN PhaseTwo(m, as, us, t) ELSE m

-----------------------------------------------------------------------------
(* The availability response and its parsing *)

\* closest.available is any JSON value: true, false, the number 1, or missing
Snapshot(scheme) ==
    [available |-> "true",
     url |-> [scheme |-> scheme, rest |-> "web.archive.org/web/20230101000000/x"],
     ts |-> "20230101000000"]

\* a closest snapshot whose available is the number 1
SnapshotOne == [Snapshot("http") EXCEPT !.available = "1"]

\* a closest snapshot marked available with no url field
SnapshotNoUrl == [available |-> "true", url |-> NoUrl, ts |-> "20230101000000"]

\* no closest snapshot, or available false
NoSnapshot == [available |-> "false", url |-> NoUrl, ts |-> "undef"]

\* null: what jsonp resolves with on a script error or a timeout
Null == [available |-> "undefined", url |-> NoUrl, ts |-> "null"]

\* the schemes are case-insensitive: HTTP://web.archive.org/... is an http URL
Responses ==
    {Snapshot("http"), Snapshot("https"), Snapshot("HTTP"), SnapshotOne,
     SnapshotNoUrl, NoSnapshot}

\* the condition of the if: data && ... && closest.available
Truthy(v) == v \notin {"false", "undefined", "0", "null"}

\* snap.url.replace(/^http:\/\//, "https://")
Upgrade(url) == IF url.scheme = "http" THEN [url EXCEPT !.scheme = "https"] ELSE url

\* the reaction of checkArchive to the resolved add(): parse, cache, return;
\* snap.url.replace throws when url is missing, and then nothing is cached
\* and the promise init waits for is rejected
Parsed(m, as, u, data, t, ok) ==
    IF Truthy(data.available)
    THEN IF data.url = NoUrl
         THEN m
         ELSE LET r == [tag |-> "Archived", archiveUrl |-> Upgrade(data.url),
                        timestamp |-> data.ts]
              IN  Deliver([m EXCEPT !.store = cacheSet(@, CACHE_ARCH, u,
                                          ArchData(r.archiveUrl, data.ts), t, ok),
                                    !.hist.archWrites = @ + 1],
                          as, u, r)
    ELSE Deliver([m EXCEPT !.store = cacheSet(@, CACHE_ARCH, u,
                                         ArchData(NoUrl, "undef"), t, ok),
                           !.hist.archWrites = @ + 1],
                 as, u, NotArchived)

\* jsonp's promise resolves with data: the throttle's reactions, then checkArchive's
JsonpResolved(m, as, u, data, t, ok) ==
    Parsed([m EXCEPT !.aq = QSettle(@, JsonpTask(u), TRUE, t), !.jsonp[u] = -1],
           as, u, data, t, ok)

-----------------------------------------------------------------------------
(* The links in the document: markBroken and attachIndicator on the nodes *)

\* a link of the page; an inserted a.wlp-indicator; an inserted span.wlp-broken-badge
LinkNode(i) == [kind |-> "link", id |-> i, broken |-> FALSE, hasArchive |-> FALSE]
IndicatorNode == [kind |-> "indicator", id |-> 0, broken |-> FALSE, hasArchive |-> FALSE]
BadgeNode == [kind |-> "badge", id |-> 0, broken |-> FALSE, hasArchive |-> FALSE]

\* no document
NoDom == [version |-> "two-phase", nodes |-> <<>>, times |-> <<>>]

\* where link i is among the siblings
PosOf(nodes, i) ==
    CHOOSE p \in 1..Len(nodes) : nodes[p].kind = "link" /\ nodes[p].id = i

\* link.parentNode.insertBefore(node, link.nextSibling), the link at p
InsertAfter(nodes, p, node) ==
    SubSeq(nodes, 1, p) \o <<node>> \o SubSeq(nodes, p + 1, Len(nodes))

\* markBroken(link, archiveResult) without the test of wlp-broken
markBrokenAgain(nodes, i, r) ==
    LET p == PosOf(nodes, i)
    IN  IF r.tag = "Archived"
        THEN InsertAfter([nodes EXCEPT ![p].broken = TRUE, ![p].hasArchive = TRUE],
                         p, IndicatorNode)
        ELSE InsertAfter([nodes EXCEPT ![p].broken = TRUE], p, BadgeNode)

\* markBroken(link, archiveResult) of the two-phase version, on link i
markBrokenNode(nodes, i, r) ==
    LET p == PosOf(nodes, i)
    IN  IF nodes[p].broken THEN nodes
        ELSE IF r.tag = "Archived"
        THEN InsertAfter([nodes EXCEPT ![p].broken = TRUE, ![p].hasArchive = TRUE],
                         p, IndicatorNode)
        ELSE InsertAfter([nodes EXCEPT ![p].broken = TRUE], p, BadgeNode)

\* attachIndicator(link, result) of the single-phase version, on link i
attachIndicator(nodes, i, r) ==
    LET p == PosOf(nodes, i)
    IN  IF r.tag # "Archived" THEN nodes
        ELSE IF p < Len(nodes) /\ nodes[p + 1].kind = "indicator" THEN nodes
        ELSE InsertAfter([nodes EXCEPT ![p].hasArchive = TRUE], p, IndicatorNode)

\* the loop of init's reaction over links = data.byUrl[url]
RECURSIVE MarkLinks(_, _, _, _)
MarkLinks(version, nodes, links, r) ==
    IF links = <<>> THEN nodes
    ELSE MarkLinks(version,
                   IF version = "two-phase" THEN markBrokenNode(nodes, Head(links), r)
                   ELSE attachIndicator(nodes, Head(links), r),
                   Tail(links), r)

\* collectLinks' byUrl[href]: the container that holds every link, then the
\* container nested in it (times[i] = 2: link i is in both); inserted
\* indicators are skipped by their class, badges are not a[href]
LinksOf(d, as, href) ==
    LET ids == [p \in 1..Len(SelectSeq(d.nodes, LAMBDA n : n.kind = "link")) |->
                   SelectSeq(d.nodes, LAMBDA n : n.kind = "link")[p].id]
    IN  SelectSeq(ids, LAMBDA i : as[i] = href)
        \o SelectSeq(ids, LAMBDA i : as[i] = href /\ d.times[i] = 2)

-----------------------------------------------------------------------------
(* jsonp: the closure of one call *)

\* no call made
NoRequest ==
    [called |-> FALSE, done |-> FALSE, callback |-> FALSE, script |-> FALSE,
     timer |-> -1, settled |-> "none", loaded |-> FALSE, event |-> "none"]

\* jsonp(url) at time t: the timer armed, window[cbName] set, the script appended
jsonpCall(t) ==
    [NoRequest EXCEPT !.called = TRUE, !.callback = TRUE, !.script = TRUE,
                      !.timer = t + jsonpTimeout]

\* cleanup() leaving window[cbName] in place
cleanupKeepsCallback(r) ==
    IF r.done THEN r ELSE [r EXCEPT !.done = TRUE, !.script = FALSE]

\* cleanup()
cleanup(r) ==
    IF r.done THEN r
    ELSE [r EXCEPT !.done = TRUE, !.callback = FALSE, !.script = FALSE]

\* resolve(value) of the promise: the first call settles it, later calls do nothing
resolve(r, value) == IF r.settled = "none" THEN [r EXCEPT !.settled = value] ELSE r

\* clearTimeout(timer)
clearTimeout(r) == [r EXCEPT !.timer = -1]

\* the timer's callback (the timer has fired and is gone)
OnTimer(r) == resolve(cleanup([r EXCEPT !.timer = -1, !.event = "timeout"]), "null")

\* the loaded script calls window[cbName](data): the handler runs if the
\* name is still defined; if not, the call fails inside the injected script
OnScript(r) ==
    LET r1 == [r EXCEPT !.loaded = TRUE, !.event = "callback"]
    IN  IF r.callback THEN resolve(cleanup(clearTimeout(r1)), "data") ELSE r1

\* script.onerror
OnError(r) ==
    resolve(cleanup(clearTimeout([r EXCEPT !.loaded = TRUE, !.event = "error"])), "null")

-----------------------------------------------------------------------------
(* init *)

FreshRun(st, as) ==
    [store |-> st, phase |-> "p1", queue |-> Retained(as),
     inflight |-> [u \in UrlIds |-> -1], jsonp |-> [u \in UrlIds |-> -1],
     results |-> [u \in UrlIds |-> "none"], aq |-> NoQueue,
     archive |-> [u \in UrlIds |-> NoResult],
     marked |-> [i \in 1..Len(as) |-> "none"], hist |-> NoHist]

\* init() with checkAllLiveness starting one worker for every URL
initWorkerPerUrl(st, as, t) ==
    LET us == Retained(as)
        m0 == FreshRun(st, as)
        n == Len(us)
    IN  IF Order(as) = <<>> THEN [m0 EXCEPT !.phase = "done"]
        ELSE AfterPull(Pull([m0 EXCEPT !.hist.workers = n], n, t), as, us, t)

\* init() and the reactions that run before the next task
init(st, as, t) ==
    LET us == Retained(as)
        m0 == FreshRun(st, as)
        n == Min(concurrency, Len(us))
    IN  IF Order(as) = <<>> THEN [m0 EXCEPT !.phase = "done"]
        ELSE AfterPull(Pull([m0 EXCEPT !.hist.workers = n], n, t), as, us, t)

\* a liveness probe settles, the worker recording the result under the URL
\* at the head of the list instead of its own
ProbeSettledSharedUrl(m, as, us, u, alive, t, ok) ==
    LET m1 == [m EXCEPT !.store = cacheSet(@, CACHE_LIVE, u, LiveData(alive), t, ok),
                        !.inflight[u] = -1,
                        !.hist.timedOut = @ \ {u},
                        !.hist.outcome[u] = IF alive THEN "response" ELSE "failure",
                        !.results[us[1]] = IF alive THEN "alive" ELSE "dead"]
    IN  AfterPull(Pull(m1, 1, t), as, us, t)

\* a liveness probe settles and its worker stops instead of pulling again
ProbeSettledNoLoop(m, as, us, u, alive, t, ok) ==
    LET m1 == [m EXCEPT !.store = cacheSet(@, CACHE_LIVE, u, LiveData(alive), t, ok),
                        !.inflight[u] = -1,
                        !.hist.timedOut = @ \ {u},
                        !.hist.outcome[u] = IF alive THEN "response" ELSE "failure",
                        !.results[u] = IF alive THEN "alive" ELSE "dead"]
    IN  AfterPull(m1, as, us, t)

\* a liveness probe settles: cacheSet, results[url] = alive, worker() again
ProbeSettled(m, as, us, u, alive, t, ok) ==
    LET m1 == [m EXCEPT !.store = cacheSet(@, CACHE_LIVE, u, LiveData(alive), t, ok),
                        !.inflight[u] = -1,
                        !.hist.timedOut = @ \ {u},
                        !.hist.outcome[u] = IF alive THEN "response" ELSE "failure",
                        !.results[u] = IF alive THEN "alive" ELSE "dead"]
    IN  AfterPull(Pull(m1, 1, t), as, us, t)

\* nothing of the run is pending
RunComplete ==
    \/ phase = "done"
    \/ phase = "p2" /\ aq.active = {} /\ aq.timerAt < 0

-----------------------------------------------------------------------------
(* The page: initial state and actions *)

\* whether the store answers every read a rerun over `us` makes, at time t
Warm(st, us, res, t) ==
    \A i \in 1..Len(us) :
        LET l == st[StoreKey(CACHE_LIVE, us[i])]
            a == st[StoreKey(CACHE_ARCH, us[i])]
        IN  /\ l # NoEntry /\ t - l.t <= LIVE_TTL
            /\ res[us[i]] = "dead" => a # NoEntry /\ t - a.t <= ARCH_TTL

NoPrev ==
    [warm |-> FALSE, results |-> [u \in UrlIds |-> "none"],
     archive |-> [u \in UrlIds |-> NoResult]]

Pages == UNION {[1..n -> UrlIds] : n \in 0..MaxAnchors}

Init ==
    /\ now = 0
    /\ userMaxLinks \in 0..MaxCap
    /\ anchors \in Pages
    /\ store = [k \in StoreKeys |-> NoEntry]
    /\ writable = TRUE
    /\ controller \in BOOLEAN
    /\ run = 0
    /\ phase = "idle"
    /\ urls = <<>>
    /\ queue = <<>>
    /\ inflight = [u \in UrlIds |-> -1]
    /\ jsonp = [u \in UrlIds |-> -1]
    /\ results = [u \in UrlIds |-> "none"]
    /\ aq = NoQueue
    /\ archive = [u \in UrlIds |-> NoResult]
    /\ marked = [i \in 1..Len(anchors) |-> "none"]
    /\ hist = NoHist
    /\ prev = NoPrev
    /\ req = [u \in UrlIds |-> NoRequest]
    /\ dom = NoDom

\* the page is loaded (again) and the script runs init()
PageLoad ==
    /\ run < MaxRuns
    /\ run = 0 \/ RunComplete
    /\ run' = run + 1
    /\ writable' \in BOOLEAN
    /\ urls' = Retained(anchors)
    /\ prev' = IF run > 0 /\ Warm(store, urls, results, now)
                THEN [warm |-> TRUE, results |-> results, archive |-> archive]
                ELSE NoPrev
    /\ Becomes(init(store, anchors, now))
    /\ UNCHANGED <<now, userMaxLinks, anchors, controller, req, dom>>

\* time passes while a run is under way or a page load is still to come
Tick ==
    /\ now < MaxNow
    /\ run > 0
    /\ run < MaxRuns \/ ~RunComplete
    /\ now' = now + 1
    /\ UNCHANGED <<userMaxLinks, anchors, store, writable, controller, run, phase, urls,
                   queue, inflight, jsonp, results, aq, archive, marked, hist, prev,
                   req, dom>>

Frame == UNCHANGED <<now, userMaxLinks, anchors, writable, controller, run, urls, prev, req, dom>>

\* fetch(url) resolves: the server answered
FetchResolved(u) ==
    /\ inflight[u] >= 0
    /\ Becomes(ProbeSettled(Cur, anchors, urls, u, TRUE, now, writable))
    /\ Frame

\* fetch(url) rejects: a network error
FetchRejected(u) ==
    /\ inflight[u] >= 0
    /\ Becomes(ProbeSettled(Cur, anchors, urls, u, FALSE, now, writable))
    /\ Frame

\* the liveness timer fires: controller.abort() rejects the fetch; without
\* an AbortController the callback does nothing and the fetch stays pending
LivenessTimeout(u) ==
    /\ inflight[u] >= 0
    /\ now >= inflight[u]
    /\ u \notin hist.timedOut
    /\ IF controller
       THEN Becomes(ProbeSettled(Cur, anchors, urls, u, FALSE, now, writable))
       ELSE Becomes([Cur EXCEPT !.hist.timedOut = @ \cup {u}])
    /\ Frame

\* the injected script runs window[cbName](data)
JsonpCallback(u, data) ==
    /\ jsonp[u] >= 0
    /\ Becomes(JsonpResolved(Cur, anchors, u, data, now, writable))
    /\ Frame

\* script.onerror
JsonpError(u) ==
    /\ jsonp[u] >= 0
    /\ Becomes(JsonpResolved(Cur, anchors, u, Null, now, writable))
    /\ Frame

\* the JSONP timer fires
JsonpTimeout(u) ==
    /\ jsonp[u] >= 0
    /\ now >= jsonp[u]
    /\ Becomes(JsonpResolved(Cur, anchors, u, Null, now, writable))
    /\ Frame

\* the throttle's delay timer fires: next()
DelayTimer ==
    /\ aq.timerAt >= 0
    /\ now >= aq.timerAt
    /\ Becomes(Started([Cur EXCEPT !.aq = QTimer(@, now)], aq, now))
    /\ Frame

Next ==
    \/ PageLoad
    \/ Tick
    \/ \E u \in UrlIds : FetchResolved(u)
    \/ \E u \in UrlIds : FetchRejected(u)
    \/ \E u \in UrlIds : LivenessTimeout(u)
    \/ \E u \in UrlIds, data \in Responses : JsonpCallback(u, data)
    \/ \E u \in UrlIds : JsonpError(u)
    \/ \E u \in UrlIds : JsonpTimeout(u)
    \/ DelayTimer

Spec == Init /\ [][Next]_vars

-----------------------------------------------------------------------------
(* Phase 1 with a probe that never completes: the fetch of the first       *)
(* retained URL gets no response, no error and no abort, and every other   *)
(* fetch that is pending eventually settles.                               *)

Slow(u) == urls # <<>> /\ u = urls[1]

\* a pending fetch other than the slow one settles: whatever else the step
\* does, the fetch is pending before it and not after it
ProbeCompletes ==
    \E u \in UrlIds :
        /\ ~Slow(u)
        /\ inflight[u] >= 0
        /\ \E f \in [UrlIds -> -1..(MaxNow + livenessTimeout)] :
               inflight' = f /\ f[u] < 0

NextSlow ==
    \/ PageLoad
    \/ Tick
    \/ \E u \in UrlIds : ~Slow(u) /\ FetchResolved(u)
    \/ \E u \in UrlIds : ~Slow(u) /\ FetchRejected(u)
    \/ \E u \in UrlIds : ~Slow(u) /\ LivenessTimeout(u)

SpecSlow == Init /\ [][NextSlow]_vars /\ WF_inflight(ProbeCompletes)

-----------------------------------------------------------------------------
(* The page visited with a localStorage that is not empty: entries left by *)
(* a visit one millisecond before the first load, values this script did   *)
(* not write, or a storage whose every access throws.                      *)

\* what an earlier visit, or somebody else, left under key k
Leftover(k, what) ==
    CASE what = "old" /\ k[1] = CACHE_LIVE -> [LiveData(FALSE) EXCEPT !.t = -1]
      [] what = "old" /\ k[1] = CACHE_ARCH -> [ArchData(Upgrade(Snapshot("http").url),
                                                        Snapshot("http").ts) EXCEPT !.t = -1]
      [] what = "garbage" -> Garbage
      [] what = "empty" -> Empty
      [] what = "throws" -> Throws

Stores ==
    {[k \in StoreKeys |-> IF k \in S THEN Leftover(k, what) ELSE NoEntry] :
        S \in SUBSET StoreKeys, what \in {"old", "garbage", "empty"}}
    \cup {[k \in StoreKeys |-> Throws]}

InitCache ==
    /\ now = 0
    /\ userMaxLinks = 0
    /\ anchors \in {<<1, 2>>, <<2, 3>>}
    /\ store \in Stores
    /\ writable = TRUE
    /\ controller = TRUE
    /\ run = 0
    /\ phase = "idle"
    /\ urls = <<>>
    /\ queue = <<>>
    /\ inflight = [u \in UrlIds |-> -1]
    /\ jsonp = [u \in UrlIds |-> -1]
    /\ results = [u \in UrlIds |-> "none"]
    /\ aq = NoQueue
    /\ archive = [u \in UrlIds |-> NoResult]
    /\ marked = [i \in 1..Len(anchors) |-> "none"]
    /\ hist = NoHist
    /\ prev = NoPrev
    /\ req = [u \in UrlIds |-> NoRequest]
    /\ dom = NoDom

SpecCache == InitCache /\ [][Next]_vars

-----------------------------------------------------------------------------
(* createQueue on its own: any caller, any task, any timing *)

Rest == <<userMaxLinks, anchors, store, writable, controller, run, phase, urls, queue,
          inflight, jsonp, results, archive, marked, hist, prev, req, dom>>

InitThrottle ==
    /\ now = 0
    /\ userMaxLinks = 0
    /\ anchors = <<>>
    /\ store = [k \in StoreKeys |-> NoEntry]
    /\ writable = TRUE
    /\ controller = TRUE
    /\ run = 0
    /\ phase = "idle"
    /\ urls = <<>>
    /\ queue = <<>>
    /\ inflight = [u \in UrlIds |-> -1]
    /\ jsonp = [u \in UrlIds |-> -1]
    /\ results = [u \in UrlIds |-> "none"]
    /\ aq = createQueue(MaxTasks)
    /\ archive = [u \in UrlIds |-> NoResult]
    /\ marked = <<>>
    /\ hist = NoHist
    /\ prev = NoPrev
    /\ req = [u \in UrlIds |-> NoRequest]
    /\ dom = NoDom

Added == {i \in DOMAIN aq.futures : aq.futures[i] # "none"}

\* queue.add(fn); fn returns a promise ("promise") or throws ("throw")
Add(kind) ==
    /\ Cardinality(Added) < MaxTasks
    /\ aq' = QAdd(aq, [id |-> Cardinality(Added) + 1, kind |-> kind], now)
    /\ UNCHANGED <<now, Rest>>

\* the promise of a started task is fulfilled or rejected
TaskSettles(task, fulfilled) ==
    /\ task \in aq.active
    /\ aq' = QSettle(aq, task, fulfilled, now)
    /\ UNCHANGED <<now, Rest>>

\* setTimeout(next, delay) fires, no sooner than delay after it was set
TimerFires ==
    /\ aq.timerAt >= 0
    /\ now >= aq.timerAt
    /\ aq' = QTimer(aq, now)
    /\ UNCHANGED <<now, Rest>>

TimePasses ==
    /\ now < MaxNow
    /\ now' = now + 1
    /\ UNCHANGED <<aq, Rest>>

NextThrottle ==
    \/ \E kind \in {"promise", "throw"} : Add(kind)
    \/ \E task \in aq.active, fulfilled \in BOOLEAN : TaskSettles(task, fulfilled)
    \/ TimerFires
    \/ TimePasses

SpecThrottle == InitThrottle /\ [][NextThrottle]_vars

-----------------------------------------------------------------------------
(* Throttle properties *)

\* C3: at most one task of a queue is in flight at any instant: a task is
\* never started while another started task has not completed.
OneTaskAtATime == Cardinality(aq.active) <= 1

\* C3 witness: a task is in flight while another waits in the queue, after an
\* earlier task has completed and the delay timer has fired.
OneTaskAtATimeWitness ==
    /\ Cardinality(aq.active) = 1
    /\ Len(aq.items) >= 1
    /\ Len(aq.started) >= 2
    /\ aq.lastDone >= 0

FailureResolvesNullAndQueueGoesOn ==
    /\ \A i \in aq.failed : aq.futures[i] = "null"
    /\ \A i \in DOMAIN aq.futures : aq.futures[i] # "rejected"
    /\ aq.items # <<>> => aq.active # {} \/ aq.timerAt >= 0

-----------------------------------------------------------------------------
(* Orchestrator properties *)

Retains(u) == \E i \in 1..Len(urls) : urls[i] = u

\* how many JSONP requests the run has issued for u
ArchReqs(u) == Cardinality({i \in 1..Len(aq.started) : aq.started[i] = u})

PhaseOneOver == phase \in {"p2", "done"}

\* the URL's CheckResult is out: alive after phase 1, or dead with its
\* ArchiveResult handed to markBroken
HasCheckResult(u) ==
    \/ PhaseOneOver /\ results[u] = "alive"
    \/ results[u] = "dead" /\ archive[u] # NoResult

\* C1: a URL whose liveness result is alive never has an archive cache read,
\* an archive request or an archive result; an archive result exists only
\* for a URL whose liveness result is dead.
NoLookupForAlive ==
    \A u \in UrlIds :
        /\ results[u] = "alive" =>
               /\ hist.archReads[u] = 0
               /\ ArchReqs(u) = 0
               /\ jsonp[u] < 0
               /\ archive[u] = NoResult
        /\ archive[u] # NoResult => results[u] = "dead"

\* C1 witness: phase 2 has delivered a result for a dead URL of a run in
\* which another URL was probed over the network and found alive.
NoLookupForAliveWitness ==
    \E u, v \in UrlIds :
        /\ results[u] = "alive" /\ hist.liveReqs[u] = 1
        /\ results[v] = "dead" /\ archive[v] # NoResult

\* C2: while any liveness probe of the run is unresolved (a URL not yet
\* pulled, a fetch pending, a result not recorded), nothing of phase 2 has
\* happened: no archive cache read, no throttle, no request.
PhaseOneIsBarrier ==
    (aq.exists \/ \E u \in UrlIds : hist.archReads[u] > 0 \/ jsonp[u] >= 0) =>
        /\ queue = <<>>
        /\ \A u \in UrlIds : inflight[u] < 0
        /\ \A i \in 1..Len(urls) : results[urls[i]] # "none"

\* C2 witness: an archive lookup has started in a run with two network
\* probes and a third URL answered from the liveness cache.
PhaseOneIsBarrierWitness ==
    /\ \E u \in UrlIds : hist.archReads[u] > 0
    /\ Cardinality({u \in UrlIds : hist.liveReqs[u] > 0}) >= 2
    /\ \E i \in 1..Len(urls) : hist.liveReqs[urls[i]] = 0

\* C6 (as claimed): when the page has more distinct URLs than the configured
\* maxLinksPerPage, the URLs past the first maxLinksPerPage get no probe, no
\* lookup and no result, and each of the first maxLinksPerPage has its
\* CheckResult once the run is complete.
CapKeepsFirstUrls ==
    LET order == Order(anchors)
    IN  (run > 0 /\ Len(order) > userMaxLinks) =>
            /\ \A i \in 1..Len(order) : i > userMaxLinks =>
                   /\ results[order[i]] = "none"
                   /\ hist.liveReqs[order[i]] = 0
                   /\ hist.archReads[order[i]] = 0
                   /\ archive[order[i]] = NoResult
            /\ RunComplete =>
                   \A i \in 1..userMaxLinks : HasCheckResult(order[i])

\* C7 (as claimed): a retained URL with N anchors gets at most one liveness
\* request, at most one archive request and one delivery, and once the run
\* is complete it has its CheckResult, applied to all N anchors.
OneCycleOneResultPerUrl ==
    \A u \in UrlIds : Retains(u) =>
        /\ hist.liveReqs[u] <= 1
        /\ ArchReqs(u) <= 1
        /\ hist.delivered[u] <= 1
        /\ RunComplete =>
               /\ HasCheckResult(u)
               /\ results[u] = "dead" =>
                      \A i \in byUrl(anchors, u) : marked[i] # "none"

DistinctKeys == \A i, j \in 1..Len(urls) : i # j => Hashes[urls[i]] # Hashes[urls[j]]

NoRequests == \A u \in UrlIds : hist.liveReqs[u] = 0 /\ ArchReqs(u) = 0

SameResults ==
    \A i \in 1..Len(urls) :
        /\ results[urls[i]] = prev.results[urls[i]]
        /\ archive[urls[i]] = prev.archive[urls[i]]

\* C8 (as claimed): a second page load that finds the first load's cache
\* entries unexpired issues no request and ends with the same result for
\* every URL.
RerunIsIdempotent == (run >= 2 /\ prev.warm) => NoRequests /\ SameResults

\* C8 (amended): the same, for pages whose retained URLs have pairwise
\* different cache keys.
RerunIsIdempotentForDistinctKeys ==
    (run >= 2 /\ prev.warm /\ DistinctKeys) =>
        NoRequests /\ RunComplete /\ SameResults

\* C8 witness: a warm second load of a page with an alive URL and a dead URL
\* whose snapshot was found by the first load.
RerunIsIdempotentWitness ==
    /\ run >= 2 /\ prev.warm /\ DistinctKeys
    /\ \E u, v \in UrlIds :
           /\ Retains(u) /\ prev.results[u] = "alive"
           /\ Retains(v) /\ prev.archive[v].tag = "Archived"

\* the lookup of u has resolved: from the cache, or its request has settled
LookupResolved(u) ==
    \/ hist.archReads[u] > 0 /\ aq.futures[u] = "none"
    \/ aq.exists /\ aq.futures[u] \in {"value", "null"}

\* C9 (as claimed): every retained URL gets one CheckResult, when it becomes
\* terminal: an alive URL at the end of phase 1 with no archive result, a dead
\* URL with its ArchiveResult in the step in which its own lookup resolves.
ResultWhenTerminal ==
    \A u \in UrlIds : Retains(u) =>
        /\ hist.delivered[u] <= 1
        /\ (PhaseOneOver /\ results[u] = "alive") => archive[u] = NoResult
        /\ (results[u] = "dead" /\ LookupResolved(u)) =>
               hist.delivered[u] = 1 /\ archive[u] # NoResult

\* C10: when phase 1 finds every retained URL alive, phase 2 never starts:
\* no throttle is created, the archive cache is neither read nor written and
\* no archive request is issued.
NoPhaseTwoWhenAllAlive ==
    (PhaseOneOver /\ \A i \in 1..Len(urls) : results[urls[i]] = "alive") =>
        /\ phase = "done"
        /\ ~aq.exists
        /\ hist.archWrites = 0
        /\ \A u \in UrlIds : hist.archReads[u] = 0 /\ jsonp[u] < 0

\* C10 witness: phase 1 is over for two URLs probed over the network, both
\* found alive.
NoPhaseTwoWhenAllAliveWitness ==
    /\ PhaseOneOver /\ Len(urls) >= 2
    /\ \A i \in 1..Len(urls) :
           results[urls[i]] = "alive" /\ hist.liveReqs[urls[i]] = 1

-----------------------------------------------------------------------------
(* Worker pool properties *)

InFlight == {u \in UrlIds : inflight[u] >= 0}

\* C11: checkAllLiveness starts exactly min(concurrency, n) workers for its n
\* URLs, and at most `concurrency` liveness probes are in flight in any state.
PoolIsBounded ==
    /\ Cardinality(InFlight) <= concurrency
    /\ run > 0 => hist.workers = Min(concurrency, Len(urls))

\* C11 witness: a page with more URLs than workers, the pool full and a URL
\* still waiting to be pulled.
PoolIsBoundedWitness ==
    /\ Len(urls) > concurrency
    /\ Cardinality(InFlight) = concurrency
    /\ queue # <<>>

\* C12: in phase 1 every retained URL is pulled and probed exactly once (only
\* retained URLs are pulled), the value recorded for a URL is the outcome of
\* that URL's own fetch (a response: alive, a failure: dead) whatever the
\* completion order, a result is recorded exactly for the pulled URLs whose
\* probe has settled, and after phase 1 every retained URL has a result.
ExactAttribution ==
    \A u \in UrlIds :
        /\ hist.probes[u] <= 1
        /\ hist.liveReqs[u] <= hist.probes[u]
        /\ hist.probes[u] = 1 => Retains(u)
        /\ results[u] # "none" <=> (hist.probes[u] = 1 /\ inflight[u] < 0)
        /\ hist.outcome[u] = "response" => results[u] = "alive"
        /\ hist.outcome[u] = "failure" => results[u] = "dead"
        /\ hist.outcome[u] = "none" =>
               results[u] = "none" \/ hist.liveReqs[u] = 0
        /\ (PhaseOneOver /\ Retains(u)) => results[u] # "none"

\* C12 witness: the probe of a later URL has settled and is recorded while
\* the probe of an earlier URL is still pending.
ExactAttributionWitness ==
    \E i, j \in 1..Len(urls) :
        /\ i < j
        /\ inflight[urls[i]] >= 0
        /\ hist.liveReqs[urls[j]] = 1 /\ results[urls[j]] # "none"

\* C13: while the probe of one URL never completes, every other retained URL
\* is eventually probed and has its liveness result recorded, provided the
\* other probes complete.
SlowProbeHoldsOneSlot ==
    \A u \in UrlIds :
        (run > 0 /\ Retains(u) /\ ~Slow(u)) ~> (results[u] # "none")

\* C13 witness: the first URL's probe is still pending and the third URL,
\* pulled after the second had settled, has its result from the network.
SlowProbeHoldsOneSlotWitness ==
    /\ Len(urls) > concurrency
    /\ inflight[urls[1]] >= 0
    /\ \A i \in 2..Len(urls) :
           hist.liveReqs[urls[i]] = 1 /\ results[urls[i]] # "none"

-----------------------------------------------------------------------------
(* checkLiveness properties *)

\* C14 (as claimed): a probe that went to the network is settled once its
\* timer has fired (no fetch stays pending after its timeout), a fetch that
\* got a response resolves alive and one that failed or was aborted resolves
\* dead.
ProbeSettlesByTimeout ==
    \A u \in UrlIds :
        /\ u \notin hist.timedOut
        /\ hist.outcome[u] = "response" => results[u] = "alive"
        /\ hist.outcome[u] = "failure" => results[u] = "dead"
        /\ (hist.liveReqs[u] = 1 /\ inflight[u] < 0) => hist.outcome[u] # "none"

LiveKey(u) == StoreKey(CACHE_LIVE, u)
ArchKey(u) == StoreKey(CACHE_ARCH, u)

\* another retained URL has the cache key of u
Collides(u) == \E v \in UrlIds \ {u} : Retains(v) /\ Hashes[v] = Hashes[u]

\* the liveness cache holds the outcome of u's fetch, and a probe of u at any
\* later time within the TTL of that entry gets it
OutcomeCached(u) ==
    LET e == store[LiveKey(u)]
    IN  /\ e.kind = "live"
        /\ e.alive = (hist.outcome[u] = "response")
        /\ e.t <= now
        /\ \A t \in now..(e.t + LIVE_TTL) :
               t - e.t < LIVE_TTL =>
                   cacheGet(store, CACHE_LIVE, LIVE_TTL, u, t).entry = e

\* C15 (as claimed): once the fetch of a URL has settled, the liveness cache
\* holds its outcome, alive or dead, for later probes of that URL.
LivenessWrittenBack ==
    \A u \in UrlIds : hist.outcome[u] # "none" => OutcomeCached(u)

\* C15 (amended): the same, when the store accepts the write and no other
\* retained URL has the same cache key.
LivenessWrittenBackIfStored ==
    \A u \in UrlIds :
        (hist.outcome[u] # "none" /\ writable /\ ~Collides(u)) => OutcomeCached(u)

\* C15 witness: a failed fetch is in the cache as alive = false, some time
\* after it was written, next to a cached alive = true of another URL.
LivenessWrittenBackWitness ==
    \E u, v \in UrlIds :
        /\ writable /\ ~Collides(u) /\ ~Collides(v)
        /\ hist.outcome[u] = "failure" /\ store[LiveKey(u)].t < now
        /\ hist.outcome[v] = "response" /\ OutcomeCached(v)

\* this step calls checkLiveness(u) / issues fetch(u)
PulledNow(u) ==
    IF run' # run THEN hist'.probes[u] = 1 ELSE hist'.probes[u] = hist.probes[u] + 1
IssuedNow(u) ==
    IF run' # run THEN hist'.liveReqs[u] = 1
    ELSE hist'.liveReqs[u] = hist.liveReqs[u] + 1

\* C16: a probe of a URL whose liveness entry is unexpired returns the cached
\* value, alive or dead, issues no fetch, starts no timer and leaves the
\* entry as it is.
CachedProbeIsLocal ==
    [][\A u \in UrlIds :
          LET e == store[LiveKey(u)]
          IN  (PulledNow(u) /\ e.kind = "live" /\ now - e.t < LIVE_TTL) =>
                  /\ results'[u] = (IF e.alive THEN "alive" ELSE "dead")
                  /\ ~IssuedNow(u)
                  /\ inflight'[u] < 0
                  /\ store'[LiveKey(u)] = e]_vars

\* C16 witness: a reload has answered one URL alive and another dead from
\* the cache, with no fetch.
CachedProbeIsLocalWitness ==
    \E u, v \in UrlIds :
        /\ run >= 2 /\ ~Collides(u) /\ ~Collides(v)
        /\ hist.probes[u] = 1 /\ hist.liveReqs[u] = 0 /\ results[u] = "alive"
        /\ hist.probes[v] = 1 /\ hist.liveReqs[v] = 0 /\ results[v] = "dead"

-----------------------------------------------------------------------------
(* Cache properties *)

\* C17 (as claimed): a probe of a URL whose liveness entry is exactly one TTL
\* old finds it expired and goes to the network.
BoundaryIsExpired ==
    [][\A u \in UrlIds :
          LET e == store[LiveKey(u)]
          IN  (PulledNow(u) /\ e.kind = "live" /\ now - e.t = LIVE_TTL) =>
                  IssuedNow(u) /\ inflight'[u] >= 0]_vars

Namespaces == {[prefix |-> CACHE_LIVE, ttl |-> LIVE_TTL], [prefix |-> CACHE_ARCH, ttl |-> ARCH_TTL]}

\* cacheGet on the entries this script has written, read when they are
\* exactly one TTL old and one millisecond later: an entry older than its TTL
\* is answered with null and removed, so that a second get finds nothing
\* stored; an entry that is returned is no older than its TTL
GetDropsExpired(st) ==
    \A ns \in Namespaces, u \in UrlIds :
        LET k == StoreKey(ns.prefix, u)
        IN  st[k].kind \in {"live", "arch"} =>
                \A t \in {st[k].t + ns.ttl, st[k].t + ns.ttl + 1} :
                    LET g == cacheGet(st, ns.prefix, ns.ttl, u, t)
                    IN  /\ g.entry # NoEntry =>
                               g.entry = st[k] /\ t - st[k].t <= ns.ttl
                        /\ t - st[k].t > ns.ttl =>
                               /\ g.entry = NoEntry
                               /\ g.store[k] = NoEntry
                               /\ cacheGet(g.store, ns.prefix, ns.ttl, u, t).entry = NoEntry

\* this step calls checkArchive(u)
LookedUpNow(u) ==
    IF run' # run THEN hist'.archReads[u] = 1
    ELSE hist'.archReads[u] = hist.archReads[u] + 1

\* C18: cacheGet never returns an entry with now - storedAt > ttl: it answers
\* null and removes the entry, so that the next get of the key finds nothing.
\* A probe or lookup that finds its entry expired leaves the key empty and
\* goes on to the network, and one answered from the cache has an entry
\* within its TTL.
ExpiredIsRemoved ==
    [][/\ store' # store => GetDropsExpired(store')
       /\ \A u \in UrlIds :
              LET e == store[LiveKey(u)]
                  a == store[ArchKey(u)]
              IN  /\ (PulledNow(u) /\ e.kind = "live" /\ now - e.t > LIVE_TTL) =>
                         /\ IssuedNow(u)
                         /\ store'[LiveKey(u)] = NoEntry
                         /\ LiveKey(u) \in hist'.evicted
                  /\ (PulledNow(u) /\ ~IssuedNow(u) /\ store'[LiveKey(u)].kind = "live") =>
                         now - store'[LiveKey(u)].t <= LIVE_TTL
                  /\ (LookedUpNow(u) /\ a.kind = "arch" /\ now - a.t > ARCH_TTL) =>
                         /\ aq'.futures[u] = "pending"
                         /\ store'[ArchKey(u)] = NoEntry
                         /\ ArchKey(u) \in hist'.evicted
                  /\ (LookedUpNow(u) /\ aq'.futures[u] = "none"
                         /\ store'[ArchKey(u)].kind = "arch") =>
                         now - store'[ArchKey(u)].t <= ARCH_TTL]_vars

\* C18 witness: a load found a liveness entry expired, removed it and probed
\* the URL over the network, and then found an archive entry expired, removed
\* it and has the request for that URL in flight.
ExpiredIsRemovedWitness ==
    \E u, v \in UrlIds :
        /\ LiveKey(u) \in hist.evicted /\ hist.liveReqs[u] = 1
        /\ ArchKey(v) \in hist.evicted /\ store[ArchKey(v)] = NoEntry
        /\ jsonp[v] >= 0

\* no probe of a URL with the key of u is pending (none can write the key in
\* the step that reads it)
KeyIsQuiet(u) == \A v \in UrlIds : Hashes[v] = Hashes[u] => inflight[v] < 0

\* a probe or lookup that reads a stored value of one of these kinds goes on
\* as on a cache miss: the fetch is issued, the request handed to the throttle
ReadAsMiss(kinds) ==
    \A u \in UrlIds :
        /\ (PulledNow(u) /\ KeyIsQuiet(u) /\ store[LiveKey(u)].kind \in kinds) =>
               IssuedNow(u) /\ inflight'[u] >= 0
        /\ (LookedUpNow(u) /\ store[ArchKey(u)].kind \in kinds) =>
               aq'.futures[u] = "pending" /\ archive'[u] = NoResult

Accepts(k) == writable /\ store[k] # Throws

\* this step settles the fetch of u / resolves the JSONP request of u
SettledNow(u) == inflight[u] >= 0 /\ inflight'[u] < 0
ResolvedNow(u) == jsonp[u] >= 0 /\ jsonp'[u] < 0

\* C20: when setItem fails (store full, or unavailable), the key keeps what it
\* held, and the probe or lookup ends as it would have had the write
\* succeeded: the same liveness result for the URL, the same ArchiveResult,
\* the same marks on the page, the same state of the throttle.
SetFailsSilently ==
    [][\A u \in UrlIds :
          /\ (SettledNow(u) /\ ~Accepts(LiveKey(u))) =>
                 LET stored == ProbeSettled(Cur, anchors, urls, u,
                                            hist'.outcome[u] = "response", now, TRUE)
                 IN  /\ store'[LiveKey(u)] = store[LiveKey(u)]
                     /\ results'[u] = stored.results[u]
                     /\ results'[u] # "none"
          /\ (ResolvedNow(u) /\ ~Accepts(ArchKey(u))) =>
                 /\ store' = store
                 /\ \E data \in Responses \cup {Null} :
                        LET stored == JsonpResolved(Cur, anchors, u, data, now, TRUE)
                        IN  /\ archive' = stored.archive
                            /\ marked' = stored.marked
                            /\ aq' = stored.aq
                            /\ hist' = stored.hist]_vars

\* C20 witness: with a store that rejects writes, a fetch has been answered
\* and a snapshot has been found and delivered, and neither is in the cache.
SetFailsSilentlyWitness ==
    /\ ~writable
    /\ \E u, v \in UrlIds :
           /\ hist.outcome[u] = "response" /\ results[u] = "alive"
           /\ store[LiveKey(u)].kind # "live"
           /\ archive[v].tag = "Archived" /\ hist.archWrites > 0
           /\ store[ArchKey(v)].kind # "arch"

\* the payloads the script writes in a namespace
Payloads(ns) ==
    IF ns.prefix = CACHE_LIVE THEN {LiveData(TRUE), LiveData(FALSE)}
    ELSE {ArchData(Upgrade(Snapshot("http").url), Snapshot("http").ts),
          ArchData(NoUrl, "undef")}

\* on store st at time t: a cacheGet (with the removal of an expired entry it
\* may make) or a cacheSet for any URL in one namespace leaves what cacheGet
\* returns for every URL of the other namespace as it was
OtherNamespaceUntouched(st, t) ==
    \A ns \in Namespaces, other \in Namespaces, u \in UrlIds, v \in UrlIds :
        ns # other =>
            LET get(s) == cacheGet(s, other.prefix, other.ttl, v, t).entry
            IN  /\ get(cacheGet(st, ns.prefix, ns.ttl, u, t).store) = get(st)
                /\ \A d \in Payloads(ns) :
                       get(cacheSet(st, ns.prefix, u, d, t, TRUE)) = get(st)

\* C21: the liveness and the archive namespace are independent: a set, a get
\* or the removal of an expired entry for a URL in one namespace never
\* changes what get returns for any URL in the other, and each namespace
\* applies its own TTL: a probe is answered from a liveness entry exactly
\* when the entry is no older than LIVE_TTL, a lookup from an archive entry
\* exactly when it is no older than ARCH_TTL.
NamespacesAreIndependent ==
    [][/\ store' # store => OtherNamespaceUntouched(store', now)
       /\ \A u \in UrlIds :
              LET e == store[LiveKey(u)]
                  a == store[ArchKey(u)]
              IN  /\ (PulledNow(u) /\ KeyIsQuiet(u) /\ e.kind = "live") =>
                         (IssuedNow(u) <=> now - e.t > LIVE_TTL)
                  /\ (LookedUpNow(u) /\ a.kind = "arch") =>
                         (aq'.futures[u] = "pending" <=> now - a.t > ARCH_TTL)]_vars

\* C21 witness: a URL whose liveness entry and archive entry were written at
\* the same time; the load found the liveness entry expired, removed it and
\* probed the URL, and answered the lookup from the archive entry, which is
\* still stored.
NamespacesAreIndependentWitness ==
    \E u \in UrlIds :
        /\ LiveKey(u) \in hist.evicted /\ hist.liveReqs[u] = 1
        /\ hist.archReads[u] = 1 /\ aq.futures[u] = "none"
        /\ archive[u].tag = "Archived"
        /\ store[ArchKey(u)].kind = "arch" /\ ArchKey(u) \notin hist.evicted

-----------------------------------------------------------------------------
(* checkArchive properties *)

\* C22 (as claimed): every Archived result, parsed from a response or rebuilt
\* from the cache, has an archiveUrl that begins with https://, whatever the
\* scheme of the URL in the response.
ArchivedUrlIsHttps ==
    \A u \in UrlIds :
        archive[u].tag = "Archived" => archive[u].archiveUrl.scheme = "https"

\* the result checkArchive(u) resolves with when the request in flight for u
\* is answered with data in the current state
ResultOf(u, data) == JsonpResolved(Cur, anchors, u, data, now, writable).archive[u]

\* C23 (as claimed): the result is Archived exactly when the response has
\* archived_snapshots.closest.available === true; every other response (no
\* closest snapshot, available false or any value other than true, null)
\* gives NotArchived. Stated for the responses whose snapshot has its url.
ArchivedIffAvailableIsTrue ==
    \A u \in UrlIds, data \in (Responses \cup {Null}) \ {SnapshotNoUrl} :
        jsonp[u] >= 0 =>
            /\ data.available = "true" => ResultOf(u, data).tag = "Archived"
            /\ data.available # "true" => ResultOf(u, data) = NotArchived

\* C24 (as claimed): no failure of an archive lookup surfaces as an error: a
\* timeout or a transport error (jsonp resolves null) and a malformed
\* response (a closest snapshot marked available with no url) make
\* checkArchive(u) resolve with NotArchived, and the links of u are marked.
LookupNeverFails ==
    \A u \in UrlIds, data \in {Null, SnapshotNoUrl} :
        jsonp[u] >= 0 =>
            LET m == JsonpResolved(Cur, anchors, u, data, now, writable)
            IN  /\ m.archive[u] = NotArchived
                /\ m.hist.delivered[u] = 1
                /\ \A i \in byUrl(anchors, u) : m.marked[i] # "none"

\* C25 (as claimed): every lookup that went to the network has written its
\* outcome to the archive cache, Archived and NotArchived alike, whatever the
\* request ended with. Stated for a store that accepts the write and a key
\* no other URL of the page shares: once the request of u has resolved, the
\* entry of u is stored and a lookup would rebuild the run's result from it.
ResolvedLookupIsCached ==
    \A u \in UrlIds :
        (/\ aq.exists /\ aq.futures[u] = "value"
         /\ Accepts(ArchKey(u)) /\ ~Collides(u)) =>
            /\ store[ArchKey(u)].kind = "arch"
            /\ archive[u] = FromCache(store[ArchKey(u)])

\* C26: the archive cache round trip: a lookup of a dead URL whose archive
\* entry is unexpired hands nothing to the throttle, issues no request and
\* resolves with the result that was stored: Archived with the stored
\* archiveUrl and timestamp, or NotArchived for the payload without a url;
\* the links of the URL are marked from it and the entry stays as it was.
CachedLookupIsLocal ==
    [][\A u \in UrlIds :
          LET a == store[ArchKey(u)]
          IN  (LookedUpNow(u) /\ a.kind = "arch" /\ now - a.t < ARCH_TTL) =>
                  /\ aq'.futures[u] = "none"
                  /\ \A i \in 1..Len(aq'.items) : aq'.items[i].id # u
                  /\ \A i \in 1..Len(aq'.started) : aq'.started[i] # u
                  /\ jsonp'[u] < 0
                  /\ archive'[u] = [tag |-> IF a.u # NoUrl THEN "Archived" ELSE "NotArchived",
                                    archiveUrl |-> a.u, timestamp |-> a.ts]
                  /\ hist'.delivered[u] = 1
                  /\ store'[ArchKey(u)] = a]_vars

\* C26 witness: a run has answered two lookups from archive entries, one with
\* Archived and one with NotArchived, and has created no request for either.
CachedLookupIsLocalWitness ==
    \E u, v \in UrlIds :
        /\ hist.archReads[u] = 1 /\ aq.futures[u] = "none"
        /\ store[ArchKey(u)].kind = "arch" /\ archive[u].tag = "Archived"
        /\ archive[u].archiveUrl = store[ArchKey(u)].u
        /\ hist.archReads[v] = 1 /\ aq.futures[v] = "none"
        /\ store[ArchKey(v)].kind = "arch" /\ archive[v] = NotArchived

-----------------------------------------------------------------------------
(* The run under fairness: every pending fetch settles, every JSONP request *)
(* resolves, the throttle's timer fires when it is due and time passes.     *)

\* a pending fetch settles (response, network error or abort)
FetchEnds ==
    \E u \in UrlIds :
        /\ inflight[u] >= 0
        /\ \E f \in [UrlIds -> -1..(MaxNow + livenessTimeout)] :
               inflight' = f /\ f[u] < 0

\* a pending JSONP request resolves (callback, script error or timeout)
RequestEnds ==
    \E u \in UrlIds :
        /\ jsonp[u] >= 0
        /\ \E f \in [UrlIds -> -1..(MaxNow + jsonpTimeout)] :
               jsonp' = f /\ f[u] < 0

\* the throttle's delay timer fires when it is due
DelayEnds ==
    /\ aq.timerAt >= 0
    /\ now >= aq.timerAt
    /\ aq' = QTimer(aq, now)

\* the clock of the model advances
TimeGoesOn == now < MaxNow /\ run > 0 /\ now' = now + 1

InitFair ==
    /\ now = 0
    /\ userMaxLinks = 0
    /\ anchors \in {<<1, 2>>, <<2, 3>>}
    /\ store = [k \in StoreKeys |-> NoEntry]
    /\ writable = TRUE
    /\ controller \in BOOLEAN
    /\ run = 0
    /\ phase = "idle"
    /\ urls = <<>>
    /\ queue = <<>>
    /\ inflight = [u \in UrlIds |-> -1]
    /\ jsonp = [u \in UrlIds |-> -1]
    /\ results = [u \in UrlIds |-> "none"]
    /\ aq = NoQueue
    /\ archive = [u \in UrlIds |-> NoResult]
    /\ marked = [i \in 1..Len(anchors) |-> "none"]
    /\ hist = NoHist
    /\ prev = NoPrev
    /\ req = [u \in UrlIds |-> NoRequest]
    /\ dom = NoDom

SpecFair ==
    /\ InitFair /\ [][Next]_vars
    /\ WF_inflight(FetchEnds) /\ WF_jsonp(RequestEnds)
    /\ WF_aq(DelayEnds) /\ WF_now(TimeGoesOn)

\* the throttle's timer is set for a time past the end of the model's clock
ClockEnded == aq.timerAt > MaxNow

\* C27 (as claimed): when every request eventually gets its response, fails
\* or reaches its timeout, every URL the run retains ends in a terminal
\* state, alive or dead with its archive result: no URL stays pending or
\* dead without a result, and no failure stops the run.
EveryUrlTerminates ==
    \A u \in UrlIds :
        (run > 0 /\ Retains(u)) ~> (HasCheckResult(u) \/ ClockEnded)

-----------------------------------------------------------------------------
(* Order and progress of the throttle *)

\* the ids of the tasks the throttle has started and of those it holds, in
\* the order in which it started them and will start them
StartOrder == aq.started \o [i \in 1..Len(aq.items) |-> aq.items[i].id]

\* C28: in phase 2 the archive requests are issued in the discovery order of
\* the dead URLs that missed the archive cache: the throttle starts its tasks
\* in exactly the order in which they were added.
IssuedInDiscoveryOrder ==
    aq.exists =>
        /\ StartOrder = SelectSeq(urls, LAMBDA u : aq.futures[u] # "none")
        /\ \A i \in 1..Len(StartOrder) :
               results[StartOrder[i]] = "dead" /\ hist.archReads[StartOrder[i]] = 1

\* C28 witness: three dead URLs missed the cache; the requests of the first
\* two have been issued, in that order, and the third waits in the throttle.
IssuedInDiscoveryOrderWitness ==
    /\ Len(urls) = 3
    /\ aq.started = <<urls[1], urls[2]>>
    /\ Len(aq.items) = 1 /\ aq.items[1].id = urls[3]

\* createQueue under fairness: every started task completes, the delay timer
\* fires when it is due and time passes
SpecThrottleFair ==
    /\ InitThrottle /\ [][NextThrottle]_vars
    /\ WF_vars(\E task \in aq.active, fulfilled \in BOOLEAN : TaskSettles(task, fulfilled))
    /\ WF_vars(TimerFires)
    /\ WF_vars(TimePasses)

\* C29 (as claimed): the throttle never strands a task: when every started
\* task completes, every added task is eventually started, once, and its
\* future resolved; the running flag is false only when no task is in flight
\* and no delay timer is pending.
NeverStrands ==
    /\ \A i \in 1..MaxTasks :
           (aq.futures[i] = "pending") ~> (aq.futures[i] \in {"value", "null"} \/ ClockEnded)
    /\ [](\A i, j \in 1..Len(aq.started) : i # j => aq.started[i] # aq.started[j])
    /\ [](~aq.running => aq.active = {} /\ aq.timerAt < 0)

-----------------------------------------------------------------------------
(* jsonp on its own: calls at any time, and for each call the script that  *)
(* loads or fails once and the timer, in any order and however late        *)

InitJsonp == InitThrottle

Others == <<userMaxLinks, anchors, store, writable, controller, run, phase, urls, queue,
            inflight, jsonp, results, aq, archive, marked, hist, prev, dom>>

\* jsonp(url) is called
JsonpCalled(u) ==
    /\ ~req[u].called
    /\ req' = [req EXCEPT ![u] = jsonpCall(now)]
    /\ UNCHANGED <<now, Others>>

\* the script has loaded and runs, before or after the request resolved
ScriptRuns(u) ==
    /\ req[u].called /\ ~req[u].loaded
    /\ req' = [req EXCEPT ![u] = OnScript(@)]
    /\ UNCHANGED <<now, Others>>

\* the script fails to load, before or after the request resolved
ScriptFails(u) ==
    /\ req[u].called /\ ~req[u].loaded
    /\ req' = [req EXCEPT ![u] = OnError(@)]
    /\ UNCHANGED <<now, Others>>

\* the timer fires, unless it was cleared
JsonpTimerFires(u) ==
    /\ req[u].timer >= 0
    /\ now >= req[u].timer
    /\ req' = [req EXCEPT ![u] = OnTimer(@)]
    /\ UNCHANGED <<now, Others>>

JsonpTimePasses ==
    /\ now < MaxNow
    /\ now' = now + 1
    /\ UNCHANGED <<req, Others>>

NextJsonp ==
    \/ \E u \in UrlIds : JsonpCalled(u)
    \/ \E u \in UrlIds : ScriptRuns(u)
    \/ \E u \in UrlIds : ScriptFails(u)
    \/ \E u \in UrlIds : JsonpTimerFires(u)
    \/ JsonpTimePasses

SpecJsonp == InitJsonp /\ [][NextJsonp]_vars

\* the request is pending / has resolved
Pending(r) == r.called /\ r.settled = "none"
Resolved(r) == r.settled # "none"

\* C30: every JSONP request resolves exactly once, with the data or with
\* null, by whichever of callback, error and timeout comes first: the first
\* event resolves it, with the data for the callback and null otherwise; once
\* it has resolved the global callback and the script element are gone, and
\* an event that arrives later changes neither the result nor the closure's
\* state.
ResolvesOnce ==
    [][\A u \in UrlIds :
          LET r == req[u]
              s == req'[u]
          IN  /\ (Pending(r) /\ s # r) =>
                     /\ s.settled = IF s.event = "callback" THEN "data" ELSE "null"
                     /\ s.done /\ ~s.callback /\ ~s.script /\ s.timer < 0
              /\ Pending(r) => r.callback /\ r.script /\ r.timer >= 0 /\ ~r.done
              /\ Resolved(r) =>
                     /\ s.settled = r.settled
                     /\ s.done /\ ~s.callback /\ ~s.script /\ s.timer < 0]_vars

\* C30 witness: a request resolved null by its timeout whose script has
\* loaded afterwards, and a request resolved by its callback.
ResolvesOnceWitness ==
    \E u, v \in UrlIds :
        /\ req[u].settled = "null" /\ req[u].event = "callback"
        /\ req[v].settled = "data" /\ req[v].loaded

-----------------------------------------------------------------------------
(* The marks on the page: init() run any number of times on one document,  *)
(* in either version, the results delivered in any order                   *)

\* the pages of this part: two links, or three of which two may share a URL
MarkedPages == [1..2 -> UrlIds] \cup {<<1, 1, 2>>, <<1, 2, 3>>}

ArchivedResult ==
    [tag |-> "Archived", archiveUrl |-> Upgrade(Snapshot("http").url),
     timestamp |-> Snapshot("http").ts]

InitMarks ==
    /\ now = 0
    /\ userMaxLinks = 0
    /\ anchors \in MarkedPages
    /\ store = [k \in StoreKeys |-> NoEntry]
    /\ writable = TRUE
    /\ controller = TRUE
    /\ run = 0
    /\ phase = "idle"
    /\ urls = <<>>
    /\ queue = <<>>
    /\ inflight = [u \in UrlIds |-> -1]
    /\ jsonp = [u \in UrlIds |-> -1]
    /\ results = [u \in UrlIds |-> "none"]
    /\ aq = NoQueue
    /\ archive = [u \in UrlIds |-> NoResult]
    /\ marked = <<>>
    /\ hist = NoHist
    /\ prev = <<>>
    /\ req = [u \in UrlIds |-> NoRequest]
    /\ \E version \in {"two-phase", "single"}, nested \in 1..2 :
           dom = [version |-> version,
                  nodes |-> [i \in 1..Len(anchors) |-> LinkNode(i)],
                  times |-> [i \in 1..Len(anchors) |-> IF i = 1 THEN nested ELSE 1]]

Untouched == <<now, userMaxLinks, store, writable, controller, phase, urls, inflight,
               jsonp, results, aq, marked, hist, req>>

\* init() runs: the two-phase version goes on with the URLs phase 1 found
\* dead (res), the single-phase version with every retained URL; prev keeps
\* what each run found and queue the lookups whose result is still to come
InitRuns(res) ==
    /\ run < MaxRuns
    /\ \A u \in UrlIds : (\A i \in 1..Len(anchors) : anchors[i] # u) => res[u] = "alive"
    /\ run' = run + 1
    /\ prev' = Append(prev, res)
    /\ LET us == IF dom.version = "two-phase"
                 THEN brokenUrls(Retained(anchors), res)
                 ELSE Retained(anchors)
       IN  queue' = queue \o [k \in 1..Len(us) |-> [url |-> us[k], run |-> run + 1]]
    /\ UNCHANGED <<anchors, archive, dom, Untouched>>

Without(q, k) == SubSeq(q, 1, k - 1) \o SubSeq(q, k + 1, Len(q))

\* the lookup of queue[k] resolves with r: init's reaction marks the links
ResultDelivered(k, r) ==
    /\ k \in 1..Len(queue)
    /\ dom' = [dom EXCEPT !.nodes =
                   MarkLinks(dom.version, @, LinksOf(dom, anchors, queue[k].url), r)]
    /\ archive' = [archive EXCEPT ![queue[k].url] = r]
    /\ queue' = Without(queue, k)
    /\ UNCHANGED <<anchors, run, prev, Untouched>>

NextMarks ==
    \/ \E res \in [UrlIds -> {"alive", "dead"}] : InitRuns(res)
    \/ \E k \in 1..MaxRuns * MaxAnchors, r \in {ArchivedResult, NotArchived} :
           ResultDelivered(k, r)

SpecMarks == InitMarks /\ [][NextMarks]_vars

\* how many inserted nodes follow link i before the next link
Decorations(nodes, i) ==
    LET p == PosOf(nodes, i)
    IN  Cardinality({q \in (p + 1)..Len(nodes) :
                         \A q2 \in (p + 1)..q : nodes[q2].kind # "link"})

\* all there is to see of link i: its classes and what follows it
LinkState(nodes, i) ==
    <<nodes[PosOf(nodes, i)].broken, nodes[PosOf(nodes, i)].hasArchive,
      Decorations(nodes, i)>>

\* C31: after any number of deliveries, with a link listed more than once
\* among the occurrences of its URL and with init() run more than once on the
\* page, every link has at most one indicator or badge; a link changes only
\* when a result for its own URL is delivered, in the two-phase version only
\* for a URL the run found dead and in the single-phase version only for a
\* result with a snapshot: a link whose URL is alive, or has no snapshot, is
\* left as it was.
MarkedAtMostOnce ==
    [][\A i \in 1..Len(anchors) :
          /\ Decorations(dom'.nodes, i) <= 1
          /\ LinkState(dom'.nodes, i) # LinkState(dom.nodes, i) =>
                 \E k \in 1..Len(queue) :
                     /\ queue[k].url = anchors[i]
                     /\ queue' = Without(queue, k)
                     /\ dom.version = "two-phase" =>
                            prev[queue[k].run][queue[k].url] = "dead"
                     /\ dom.version = "single" =>
                            archive'[queue[k].url].tag = "Archived"]_vars

\* C31 witness: in the two-phase version a link that is in both containers,
\* found dead by both runs, all results delivered, has one decoration, and a
\* link found alive by both runs has none.
MarkedAtMostOnceWitness ==
    /\ run = 2 /\ queue = <<>> /\ dom.version = "two-phase"
    /\ \E i, j \in 1..Len(anchors) :
           /\ dom.times[i] = 2
           /\ prev[1][anchors[i]] = "dead" /\ prev[2][anchors[i]] = "dead"
           /\ Decorations(dom.nodes, i) = 1
           /\ prev[1][anchors[j]] = "alive" /\ prev[2][anchors[j]] = "alive"
           /\ LinkState(dom.nodes, j) = <<FALSE, FALSE, 0>>

====
